---------------------------- MODULE Spec2Model ----------------------------
(***************************************************************************)
(* Gauss-Seidel solver (src/src/solver.rs) and its problem builder         *)
(* (src/src/input.rs), driven as src/src/main.rs drives them.              *)
(*                                                                         *)
(* Numbers.  The program computes with rust_decimal::Decimal: a signed     *)
(* 96-bit mantissa with a decimal scale of 0..28, whose operators `*`,     *)
(* `-`, `+=` and `/` round the last digit (half to even) when the exact    *)
(* result has too many digits and panic when the result is out of range.   *)
(* TLC's integers are 32 bits wide, so the model keeps the same semantics  *)
(* at a reduced width: a Decimal is an integer number of 10^-DecDigits     *)
(* units, of magnitude at most DecMax.  Every operator below rounds and    *)
(* overflows as the library does, only earlier.                            *)
(***************************************************************************)
EXTENDS Integers, Sequences, FiniteSets, TLC

(***************************************************************************)
(* rust_decimal::Decimal at reduced width                                  *)
(***************************************************************************)

\* Number of fractional decimal digits carried (28 in rust_decimal).
DecDigits == 6

\* The representation of dec!(1).
DecUnit == 10 ^ DecDigits

\* Products are formed from limbs of half that width.
DecHalf == 10 ^ (DecDigits \div 2)

\* Values of magnitude DecIntLimit and above are out of range
\* (about 7.9 * 10^28 in rust_decimal).
DecIntLimit == 1000

\* Largest representable magnitude, in units.
DecMax == DecIntLimit * DecUnit - 1

DecAbs(a) == IF a < 0 THEN -a ELSE a

DecSign(a) == IF a < 0 THEN -1 ELSE 1

\* The result of a panicking operation.
DecOverflow == [ok |-> FALSE, v |-> 0]

DecOk(v) == [ok |-> TRUE, v |-> v]

\* Round q (with remainder rem of a division by den) half to even, then
\* range-check and sign.
DecRound(sign, q, rem, den) ==
    LET up == (2 * rem > den) \/ (2 * rem = den /\ q % 2 = 1)
        r  == IF up THEN q + 1 ELSE q
    IN  IF r > DecMax THEN DecOverflow ELSE DecOk(sign * r)

\* a - b  (impl Sub for Decimal: panics "Subtraction overflowed").
DecSub(a, b) ==
    IF DecAbs(a - b) > DecMax THEN DecOverflow ELSE DecOk(a - b)

\* a + b  (impl AddAssign for Decimal: panics "Addition overflowed").
DecAdd(a, b) ==
    IF DecAbs(a + b) > DecMax THEN DecOverflow ELSE DecOk(a + b)

\* a * b  (impl Mul for Decimal: panics "Multiplication overflowed").
\* The exact product is formed limb by limb and rounded half to even.
DecMul(a, b) ==
    LET A   == DecAbs(a)
        B   == DecAbs(b)
        aH  == A \div DecUnit
        aL  == A % DecUnit
        bH  == B \div DecUnit
        bL  == B % DecUnit
        a1  == aL \div DecHalf
        a0  == aL % DecHalf
        b1  == bL \div DecHalf
        b0  == bL % DecHalf
        hi    == aH * bH
        cross == aH * bL + aL * bH
        t     == (a1 * b0 + a0 * b1) * DecHalf + a0 * b0
        lowQ  == a1 * b1 + t \div DecUnit
        lowR  == t % DecUnit
    IN  IF hi >= DecIntLimit THEN DecOverflow
        ELSE IF cross + lowQ > DecMax - hi * DecUnit THEN DecOverflow
        ELSE DecRound(DecSign(a) * DecSign(b),
                      hi * DecUnit + cross + lowQ, lowR, DecUnit)

\* <<q, rem>> with r * m = q * den + rem and 0 <= rem < den, for 0 <= r < den,
\* by doubling (no intermediate exceeds 2 * den).
RECURSIVE DecScaleDiv(_, _, _)
DecScaleDiv(r, m, den) ==
    IF m = 0 THEN <<0, 0>>
    ELSE LET h  == DecScaleDiv(r, m \div 2, den)
             q2 == IF 2 * h[2] >= den THEN 2 * h[1] + 1 ELSE 2 * h[1]
             r2 == IF 2 * h[2] >= den THEN 2 * h[2] - den ELSE 2 * h[2]
             r3 == IF m % 2 = 1 THEN r2 + r ELSE r2
         IN  IF r3 >= den THEN <<q2 + 1, r3 - den>> ELSE <<q2, r3>>

\* a / b for b # 0  (impl Div for Decimal: panics "Division overflowed").
\* Long division to DecDigits fractional digits, rounded half to even.
DecDiv(a, b) ==
    LET A  == DecAbs(a)
        B  == DecAbs(b)
        q0 == A \div B
        f  == DecScaleDiv(A % B, DecUnit, B)
    IN  IF q0 >= DecIntLimit THEN DecOverflow
        ELSE DecRound(DecSign(a) * DecSign(b), q0 * DecUnit + f[1], f[2], B)

(***************************************************************************)
(* Numeric literals.  A literal of the input document is a string, here a  *)
(* sequence of one-character strings.                                      *)
(***************************************************************************)

DigitChars == {"0", "1", "2", "3", "4", "5", "6", "7", "8", "9"}

DigitVal(c) ==
    CASE c = "0" -> 0 [] c = "1" -> 1 [] c = "2" -> 2 [] c = "3" -> 3
      [] c = "4" -> 4 [] c = "5" -> 5 [] c = "6" -> 6 [] c = "7" -> 7
      [] c = "8" -> 8 [] c = "9" -> 9

\* The value of a digit string read as an integer, capped at DecIntLimit
\* (every value that large is out of range).
RECURSIVE DecIntDigits(_, _)
DecIntDigits(ds, acc) ==
    IF ds = <<>> THEN acc
    ELSE LET n == (acc * 10) + DigitVal(Head(ds))
         IN  DecIntDigits(Tail(ds), IF n >= DecIntLimit THEN DecIntLimit ELSE n)

\* The first DecDigits fractional digits, in units (missing digits are 0).
RECURSIVE DecFracDigits(_, _)
DecFracDigits(ds, place) ==
    IF ds = <<>> \/ place = 0 THEN 0
    ELSE DigitVal(Head(ds)) * (10 ^ (place - 1)) + DecFracDigits(Tail(ds), place - 1)

\* Decimal::from_str: [+-] digits [. digits], at least one digit.  Digits
\* beyond the carried precision round the last kept digit up when the first
\* dropped digit is 5 or more; a value out of range is an error.
DecFromStr(s) ==
    LET signed == Len(s) > 0 /\ s[1] \in {"-", "+"}
        sign   == IF Len(s) > 0 /\ s[1] = "-" THEN -1 ELSE 1
        body   == IF signed THEN Tail(s) ELSE s
        dots   == {p \in 1..Len(body) : body[p] = "."}
        wellFormed ==
            /\ Cardinality(dots) <= 1
            /\ \A p \in 1..Len(body) : body[p] \in DigitChars \cup {"."}
            /\ \E p \in 1..Len(body) : body[p] \in DigitChars
        dot    == IF dots = {} THEN Len(body) + 1 ELSE CHOOSE p \in dots : TRUE
        ip     == DecIntDigits(SubSeq(body, 1, dot - 1), 0)
        fs     == SubSeq(body, dot + 1, Len(body))
        fp     == DecFracDigits(fs, DecDigits)
        up     == Len(fs) > DecDigits /\ DigitVal(fs[DecDigits + 1]) >= 5
        mag    == ip * DecUnit + fp + (IF up THEN 1 ELSE 0)
    IN  IF ~wellFormed THEN DecOverflow
        ELSE IF ip >= DecIntLimit \/ mag > DecMax THEN DecOverflow
        ELSE DecOk(sign * mag)

(***************************************************************************)
(* Problem builder: src/src/input.rs                                       *)
(***************************************************************************)

build_decimal_from_string(input) == DecFromStr(input)

\* Result values.
Ok(v) == [kind |-> "Ok", value |-> v]

Err(e) == [kind |-> "Err", error |-> e]

Panic(m) == [kind |-> "Panic", message |-> m]

DECIMAL_PARSE_ERROR_MESSAGE == "Can't represent such precise value"

ZERO_ON_DIAGONAL_ERROR_MESSAGE ==
    "Zero on diagonal detected! Expected non-zero value on diagonal!"

\* The message of rust_decimal::Error, not told apart any further.
DecErrorMessage == "Invalid decimal"

SeqMax(sizes) == CHOOSE m \in {sizes[p] : p \in 1..Len(sizes)} :
                    \A p \in 1..Len(sizes) : sizes[p] <= m

\* The lowest position of the sequence of booleans that holds TRUE, or 0.
FirstPos(flags) ==
    IF \E p \in 1..Len(flags) : flags[p]
    THEN CHOOSE p \in 1..Len(flags) : flags[p] /\ \A q \in 1..(p - 1) : ~flags[q]
    ELSE 0

\* Faulty variant: the right-hand side's length is not checked.
RhsSizeUnchecked(expression_rhs, matrix_size) == FALSE

\* The check of the right-hand side's length in compute_matrix_size.
RhsSizeWrong(expression_rhs, matrix_size) == Len(expression_rhs) # matrix_size

compute_matrix_size(input_matrix, expression_rhs) ==
    LET row_sizes == [r \in 1..Len(input_matrix) |-> Len(input_matrix[r])]
    IN  IF Len(input_matrix) = 0
        THEN Err([tag |-> "MatrixSizeError", variant |-> "EmptyMatrix"])
        ELSE
        LET matrix_size   == SeqMax(row_sizes)
            incorrect_row == FirstPos([r \in 1..Len(row_sizes) |->
                                          row_sizes[r] # matrix_size])
            rows_amount   == Len(row_sizes)
        IN  IF incorrect_row # 0
            THEN Err([tag |-> "MatrixSizeError", variant |-> "WrongRowSize",
                      actual |-> row_sizes[incorrect_row], expected |-> matrix_size,
                      position |-> (incorrect_row - 1) + 1])
            ELSE IF rows_amount # matrix_size
            THEN Err([tag |-> "MatrixSizeError", variant |-> "WrongRowsCount",
                      actual |-> rows_amount, expected |-> matrix_size])
            ELSE IF RhsSizeWrong(expression_rhs, matrix_size)
            THEN Err([tag |-> "MatrixSizeError",
                      variant  |-> "WrongExpressionRightHandSide",
                      actual |-> Len(expression_rhs), expected |-> matrix_size])
            ELSE Ok(matrix_size)

\* .iter().flatten(): the rows one after the other.
RECURSIVE Flatten(_)
Flatten(rows) == IF rows = <<>> THEN <<>> ELSE Head(rows) \o Flatten(Tail(rows))

\* Faulty variant: the index converted to a position, as the other errors do.
ZeroPositionOneBased(i) == [row |-> i + 1, column |-> i + 1]

\* The position check_for_zeroes_on_diagonal reports for a zero at (i, i).
ZeroPosition(i) == [row |-> i, column |-> i]

\* for i in 0..matrix_size: the first zero on the diagonal from row i on.
RECURSIVE ZeroScan(_, _, _)
ZeroScan(matrix, matrix_size, i) ==
    IF i >= matrix_size THEN Ok(<<>>)
    ELSE IF matrix[i][i] = 0
         THEN Err([row |-> ZeroPosition(i).row, column |-> ZeroPosition(i).column,
                   message |-> ZERO_ON_DIAGONAL_ERROR_MESSAGE])
         ELSE ZeroScan(matrix, matrix_size, i + 1)

check_for_zeroes_on_diagonal(matrix, matrix_size) == ZeroScan(matrix, matrix_size, 0)

\* What main gets from the environment: no input, an unreadable file, text
\* that is not the expected JSON document, or the document.
try_non_interactive(input) ==
    CASE input.kind = "None"     -> Err([tag |-> "NoInputProvided"])
      [] input.kind = "Unreadable" -> Err([tag |-> "IOError"])
      [] input.kind = "NotJson"  -> Err([tag |-> "ParseError"])
      [] input.kind = "Document" -> Ok(input.doc)

\* Decimal::from_str(&parsed.epsilon).expect(...)
ParseEpsilon(epsilon) ==
    LET d == DecFromStr(epsilon)
    IN  IF d.ok THEN Ok(d.v) ELSE Panic(DECIMAL_PARSE_ERROR_MESSAGE)

NotParsed(lit) == ~build_decimal_from_string(lit).ok

build_configuration(input) ==
    LET got == try_non_interactive(input)
    IN  IF got.kind = "Err" THEN got ELSE
    LET parsed == got.value
        size   == compute_matrix_size(parsed.input_matrix, parsed.expression_rhs)
    IN  IF size.kind = "Err" THEN size ELSE
    LET matrix_size == size.value
        flat   == Flatten(parsed.input_matrix)
        bad    == FirstPos([p \in 1..Len(flat) |-> NotParsed(flat[p])])
    IN  IF bad # 0
        THEN Err([tag |-> "MatrixInputError",
                  row |-> ((bad - 1) \div matrix_size) + 1,
                  column |-> ((bad - 1) % matrix_size) + 1,
                  message |-> DecErrorMessage])
        ELSE
    LET matrix == [r \in 0..(matrix_size - 1) |->
                    [c \in 0..(matrix_size - 1) |->
                       build_decimal_from_string(flat[r * matrix_size + c + 1]).v]]
        zero   == check_for_zeroes_on_diagonal(matrix, matrix_size)
    IN  IF zero.kind = "Err"
        THEN Err([tag |-> "MatrixInputError", row |-> zero.error.row,
                  column |-> zero.error.column, message |-> zero.error.message])
        ELSE
    LET badRhs == FirstPos([p \in 1..Len(parsed.expression_rhs) |->
                            NotParsed(parsed.expression_rhs[p])])
    IN  IF badRhs # 0
        THEN Err([tag |-> "RightHandSideError", position |-> (badRhs - 1) + 1,
                  message |-> DecErrorMessage])
        ELSE
    LET expression_rhs == [r \in 0..(Len(parsed.expression_rhs) - 1) |->
                             build_decimal_from_string(parsed.expression_rhs[r + 1]).v]
        eps == ParseEpsilon(parsed.epsilon)
    IN  IF eps.kind = "Panic" THEN eps
        ELSE Ok([input_matrix   |-> matrix,
                 expression_rhs |-> expression_rhs,
                 max_iterations |-> parsed.max_iterations,
                 epsilon        |-> eps.value])

(***************************************************************************)
(* Iterative solver: src/src/solver.rs                                     *)
(*                                                                         *)
(* A call of Equation::solve is a record: pc is the position in the code   *)
(* ("loop": line 23, "rows": the for loop of line 26 before row i, "Ok",   *)
(* "Diverge", "Panic": the call has ended), k, delta, i and result_vector  *)
(* are the locals.  The h_ fields are history, read by the properties      *)
(* only: the estimate at the start of the sweep, the number of sweeps      *)
(* completed, and delta and the estimate at the end of each.               *)
(***************************************************************************)

Idle == [pc |-> "Idle"]

Rows(eq) == DOMAIN eq.input_matrix

\* let matrix_size = self.input_matrix.column_iter().count();
MatrixSize(eq) == Cardinality(Rows(eq))

\* The starting estimate: DVector::from_element(matrix_size, dec!(1)).
InitialEstimate(eq) == [j \in Rows(eq) |-> DecUnit]

\* Lines 19-21.
solve_enter(eq) ==
    [pc |-> "loop", eq |-> eq, k |-> 1, i |-> 0, delta |-> 0,
     result_vector |-> InitialEstimate(eq),
     h_sweep_start |-> InitialEstimate(eq), h_sweeps |-> 0,
     h_deltas |-> <<>>, h_estimates |-> <<>>]

\* let mut delta = dec!(0);
DeltaAtSweepStart(st) == 0

\* Line 24 and the entry of the for loop.
sweep_begin(st) ==
    [st EXCEPT !.pc = "rows", !.delta = DeltaAtSweepStart(st), !.i = 0,
               !.h_sweep_start = st.result_vector]

\* Faulty variant: the estimate of the sweep's start (Jacobi iteration).
EstimateReadDeferred(st, j) == st.h_sweep_start[j]

\* result_vector[j] as line 34 reads it.
EstimateRead(st, j) == st.result_vector[j]

\* Faulty variant: the diagonal term is not left out of the sum.
SkipNoColumn(i, j) == FALSE

\* Lines 30-33: the column the sum leaves out.
SkipColumn(i, j) == j = i

\* Lines 27-35: s after the columns j..matrix_size-1 of row i have been added.
RECURSIVE RowSum(_, _, _)
RowSum(st, j, s) ==
    IF j >= MatrixSize(st.eq) THEN DecOk(s)
    ELSE IF SkipColumn(st.i, j) THEN RowSum(st, j + 1, s)
    ELSE LET p == DecMul(st.eq.input_matrix[st.i][j], EstimateRead(st, j))
             a == IF p.ok THEN DecAdd(s, p.v) ELSE DecOverflow
         IN  IF a.ok THEN RowSum(st, j + 1, a.v) ELSE DecOverflow

\* Line 37.  A zero divisor panics too ("Division by zero").
RowValue(st) ==
    LET s == RowSum(st, 0, 0)
        n == IF s.ok THEN DecSub(st.eq.expression_rhs[st.i], s.v) ELSE DecOverflow
    IN  IF ~n.ok \/ st.eq.input_matrix[st.i][st.i] = 0 THEN DecOverflow
        ELSE DecDiv(n.v, st.eq.input_matrix[st.i][st.i])

\* Lines 26-44, one row.
row_update(st) ==
    LET x == RowValue(st)
        d == IF x.ok THEN DecSub(x.v, st.result_vector[st.i]) ELSE DecOverflow
    IN  IF ~d.ok THEN [st EXCEPT !.pc = "Panic"]
        ELSE [st EXCEPT !.delta = IF DecAbs(d.v) > st.delta THEN DecAbs(d.v)
                                                             ELSE st.delta,
                        !.result_vector[st.i] = x.v,
                        !.i = st.i + 1]

\* Faulty variant: a delta equal to epsilon counts as converged.
ConvergedNonStrict(delta, epsilon) == delta <= epsilon

\* Faulty variant: the comparison reversed.
ConvergedReversed(delta, epsilon) == delta > epsilon

\* Line 46.
Converged(delta, epsilon) == delta < epsilon

\* Faulty variant: one sweep too many.
MoreSweepsOffByOne(k, max_iterations) == k <= max_iterations

\* Line 50.
MoreSweeps(k, max_iterations) == k < max_iterations

\* Lines 46-55, after the last row.
sweep_end(st) ==
    LET h == [st EXCEPT !.h_sweeps = st.h_sweeps + 1,
                        !.h_deltas = Append(st.h_deltas, st.delta),
                        !.h_estimates = Append(st.h_estimates, st.result_vector)]
    IN  IF Converged(st.delta, st.eq.epsilon) THEN [h EXCEPT !.pc = "Ok"]
        ELSE IF MoreSweeps(st.k, st.eq.max_iterations)
             THEN [h EXCEPT !.k = st.k + 1, !.pc = "loop"]
             ELSE [h EXCEPT !.pc = "Diverge"]

Ended(st) == st.pc \in {"Ok", "Diverge", "Panic"}

\* One step of a call.
solve_step(st) ==
    CASE st.pc = "loop" -> sweep_begin(st)
      [] st.pc = "rows" /\ st.i < MatrixSize(st.eq) -> row_update(st)
      [] st.pc = "rows" /\ st.i >= MatrixSize(st.eq) -> sweep_end(st)

(***************************************************************************)
(* Inputs                                                                  *)
(***************************************************************************)

\* Largest matrix dimension (and row length) among the generated documents.
MaxN == 2

\* Largest max_iterations among the generated documents.
MaxIter == 3

Document(m, r, k, e) ==
    [kind |-> "Document",
     doc  |-> [input_matrix |-> m, expression_rhs |-> r,
               max_iterations |-> k, epsilon |-> e]]

DiagLiterals == {<<"0">>, <<"1">>, <<"2">>}

OffDiagLiterals == {<<"1">>, <<"9">>}

\* Literals put at one place of an otherwise regular matrix: zeros in several
\* spellings and strings that are no number.
OverrideLiterals == {<<"0">>, <<"-", "0", ".", "0">>, <<"x">>, <<>>}

RhsOverrideLiterals == {<<"1", ".", "5", ".">>}

EpsilonLiterals ==
    {<<"0">>, <<"0", ".", "1">>, <<"0", ".", "5">>, <<"-", "1">>, <<"e">>}

NoOverride == [r |-> 0, c |-> 0, lit |-> <<>>]

Overrides(n, m, lits) == {NoOverride} \cup [r : 1..n, c : 1..m, lit : lits]

\* The n x n matrix with d on the diagonal and o elsewhere, one entry replaced.
PatternMatrix(n, d, o, ov) ==
    [r \in 1..n |-> [c \in 1..n |->
        IF ov.r = r /\ ov.c = c THEN ov.lit ELSE IF r = c THEN d ELSE o]]

PatternRhs(n, ov) ==
    [r \in 1..n |-> IF ov.r = r THEN ov.lit ELSE <<"1">>]

\* Square systems that differ in their values.
ValueDocuments ==
    {Document(PatternMatrix(n, d, o, ov), PatternRhs(n, rov), k, e) :
        n \in 1..MaxN, d \in DiagLiterals, o \in OffDiagLiterals,
        ov \in Overrides(MaxN, MaxN, OverrideLiterals),
        rov \in Overrides(MaxN, 1, RhsOverrideLiterals),
        k \in 0..MaxIter, e \in EpsilonLiterals}

RowLengths == UNION {[1..m -> 0..MaxN] : m \in 0..MaxN}

\* Documents that differ in their shape: every row count, row length and
\* right-hand-side length up to MaxN.
ShapeDocuments ==
    {Document([r \in 1..Len(ls) |-> [c \in 1..ls[r] |->
                  IF r = c THEN <<"2">> ELSE <<"1">>]],
              [r \in 1..m |-> <<"1">>], 1, <<"0", ".", "5">>) :
        ls \in RowLengths, m \in 0..MaxN}

\* 4x + y = 1, 2x + 3y = 2.
ScenarioConverge ==
    Document(<< << <<"4">>, <<"1">> >>, << <<"2">>, <<"3">> >> >>,
             << <<"1">>, <<"2">> >>, 50, <<"0", ".", "0", "0", "0", "1">>)

\* x + 2y = 1, 2x + y = 1: the estimates grow fourfold with every sweep.
ScenarioGrow(k, e) ==
    Document(<< << <<"1">>, <<"2">> >>, << <<"2">>, <<"1">> >> >>,
             << <<"1">>, <<"1">> >>, k, e)

ScenarioDocuments ==
    {ScenarioConverge, ScenarioGrow(5, <<"0">>),
     ScenarioGrow(50, <<"0", ".", "0", "0", "0", "1">>)}

Inputs ==
    {[kind |-> "None"], [kind |-> "Unreadable"], [kind |-> "NotJson"]}
    \cup ValueDocuments \cup ShapeDocuments \cup ScenarioDocuments

(***************************************************************************)
(* The program: src/src/main.rs                                            *)
(***************************************************************************)

VARIABLES
    input,    \* what the environment supplies
    config,   \* the result of build_configuration, once called
    run,      \* the call config.solve() of main
    run2      \* a second call, on the same system with a looser epsilon

vars == <<input, config, run, run2>>

Pending == [kind |-> "Pending"]

Init ==
    /\ input \in Inputs
    /\ config = Pending
    /\ run = Idle
    /\ run2 = Idle

\* main, line 26.
Build ==
    /\ config = Pending
    /\ config' = build_configuration(input)
    /\ UNCHANGED <<input, run, run2>>

\* main, line 38: Ok(config) => config.solve().
SolveEnter ==
    /\ config.kind = "Ok"
    /\ run = Idle
    /\ run' = solve_enter(config.value)
    /\ UNCHANGED <<input, config, run2>>

SweepBegin ==
    /\ run.pc = "loop"
    /\ run' = sweep_begin(run)
    /\ UNCHANGED <<input, config, run2>>

RowUpdate ==
    /\ run.pc = "rows"
    /\ run.i < MatrixSize(run.eq)
    /\ run' = row_update(run)
    /\ UNCHANGED <<input, config, run2>>

SweepEnd ==
    /\ run.pc = "rows"
    /\ run.i >= MatrixSize(run.eq)
    /\ run' = sweep_end(run)
    /\ UNCHANGED <<input, config, run2>>

SolveNext == SweepBegin \/ RowUpdate \/ SweepEnd

Next == Build \/ SolveEnter \/ SolveNext

Spec == Init /\ [][Next]_vars

(***************************************************************************)
(* Two calls on systems that differ only in epsilon                        *)
(***************************************************************************)

\* The tolerances of the second call.
LooseEpsilons == {DecFromStr(e).v : e \in {l \in EpsilonLiterals : DecFromStr(l).ok}}

SecondEnter ==
    /\ Ended(run)
    /\ run2 = Idle
    /\ \E e \in LooseEpsilons :
          /\ run.eq.epsilon <= e
          /\ run2' = solve_enter([run.eq EXCEPT !.epsilon = e])
    /\ UNCHANGED <<input, config, run>>

SecondStep ==
    /\ run2.pc \in {"loop", "rows"}
    /\ run2' = solve_step(run2)
    /\ UNCHANGED <<input, config, run>>

NextPair == Next \/ SecondEnter \/ SecondStep

SpecPair == Init /\ [][NextPair]_vars

(***************************************************************************)
(* Properties                                                              *)
(***************************************************************************)

Started(st) == st.pc # "Idle"

\* The deltas of the completed sweeps that are below the tolerance.
SmallSweeps(st) ==
    {s \in 1..Len(st.h_deltas) : st.h_deltas[s] < st.eq.epsilon}

\* The estimate before sweep s.
EstimateBefore(st, s) ==
    IF s = 1 THEN [j \in Rows(st.eq) |-> DecUnit] ELSE st.h_estimates[s - 1]

SetMax(S) == CHOOSE m \in S : \A v \in S : v <= m

\* max over the rows in R of |a[j] - b[j]|, 0 for no row.
MaxAbsDiff(a, b, R) == SetMax({0} \cup {DecAbs(a[j] - b[j]) : j \in R})

RECURSIVE SumOver(_, _)
SumOver(f, S) ==
    IF S = {} THEN 0
    ELSE LET j == CHOOSE e \in S : TRUE IN f[j] + SumOver(f, S \ {j})

\* (rhs[i] - sum over j # i of coefficients[i][j] * estimate[j]) / coefficients[i][i]
\* with estimate[j] = new[j] for j < i and old[j] for j > i.
ReferenceRow(eq, old, new, i) ==
    LET terms == [j \in Rows(eq) \ {i} |->
                    DecMul(eq.input_matrix[i][j],
                           IF j < i THEN new[j] ELSE old[j]).v]
    IN  DecDiv(eq.expression_rhs[i] - SumOver(terms, Rows(eq) \ {i}),
               eq.input_matrix[i][i]).v

\* The reference Gauss-Seidel step: old with its rows 0..i-1 replaced in turn.
RECURSIVE GaussSeidelRows(_, _, _)
GaussSeidelRows(eq, old, i) ==
    IF i = 0 THEN old
    ELSE LET new == GaussSeidelRows(eq, old, i - 1)
         IN  [new EXCEPT ![i - 1] = ReferenceRow(eq, old, new, i - 1)]

GaussSeidelStep(eq, old) == GaussSeidelRows(eq, old, MatrixSize(eq))

\* The Jacobi step: every row from the old estimate.
JacobiStep(eq, old) == [i \in Rows(eq) |-> ReferenceRow(eq, old, old, i)]

C2_ConvergeAtFirstSmallDelta ==
    Started(run) =>
        /\ (run.pc = "Ok") <=> (SmallSweeps(run) # {})
        /\ SmallSweeps(run) \subseteq {run.h_sweeps}
        /\ run.pc = "Ok" =>
              /\ run.h_sweeps >= 1
              /\ run.h_sweeps = run.k
              /\ run.eq.max_iterations >= 1 => run.k <= run.eq.max_iterations
              /\ run.result_vector = run.h_estimates[run.h_sweeps]
        /\ \A s \in 1..Len(run.h_deltas) :
              run.h_deltas[s] =
                  MaxAbsDiff(run.h_estimates[s], EstimateBefore(run, s), Rows(run.eq))
        /\ run.pc = "rows" =>
              run.delta = MaxAbsDiff(run.result_vector, run.h_sweep_start,
                                     {j \in Rows(run.eq) : j < run.i})

\* Success after more than one sweep, the earlier delta being the larger.
C2_Witness ==
    /\ Started(run) /\ run.pc = "Ok"
    /\ run.h_sweeps >= 2
    /\ run.h_deltas[1] > run.h_deltas[run.h_sweeps]

\* C3: the first sweep starts from the all-ones estimate; before row i of a
\* sweep the rows below i hold the reference Gauss-Seidel values and the
\* others the values of the sweep's start; the estimate at the end of every
\* sweep is the reference Gauss-Seidel step of the estimate before it.
C3_GaussSeidel ==
    Started(run) =>
        /\ run.h_sweeps = 0 => run.h_sweep_start = [j \in Rows(run.eq) |-> DecUnit]
        /\ run.pc = "rows" =>
              run.result_vector =
                  GaussSeidelRows(run.eq, run.h_sweep_start, run.i)
        /\ \A s \in 1..Len(run.h_estimates) :
              run.h_estimates[s] =
                  GaussSeidelStep(run.eq, EstimateBefore(run, s))

\* A completed sweep whose result is not the Jacobi step.
C3_Witness ==
    /\ Started(run) /\ run.h_sweeps >= 1
    /\ run.h_estimates[1] # JacobiStep(run.eq, EstimateBefore(run, 1))
    /\ run.h_estimates[1] = GaussSeidelStep(run.eq, EstimateBefore(run, 1))

\* C4: with max_iterations >= 1 and a non-zero diagonal, a call of solve is
\* at a position from which it goes on ("loop", "rows") or has returned Ok
\* or Diverge, so that it ends with one of the two; neither k nor the number
\* of sweeps exceeds max_iterations.
C4_Terminates ==
    (Started(run) /\ run.eq.max_iterations >= 1) =>
        /\ run.pc \in {"loop", "rows", "Ok", "Diverge"}
        /\ run.k <= run.eq.max_iterations
        /\ run.h_sweeps <= run.eq.max_iterations

ShapeOk(doc) ==
    /\ Len(doc.input_matrix) >= 1
    /\ \A r \in 1..Len(doc.input_matrix) :
          Len(doc.input_matrix[r]) = Len(doc.input_matrix)
    /\ Len(doc.expression_rhs) = Len(doc.input_matrix)

MatrixLiterals(doc) ==
    {doc.input_matrix[r][c] :
        r \in 1..Len(doc.input_matrix), c \in 1..Len(doc.input_matrix)}

\* The indices (from 0) of the diagonal entries whose value is zero.
ZeroDiagonal(doc) ==
    {i \in 0..(Len(doc.input_matrix) - 1) :
        DecFromStr(doc.input_matrix[i + 1][i + 1]).v = 0}

SetMin(S) == CHOOSE m \in S : \A v \in S : m <= v

Built == config # Pending /\ input.kind = "Document"

\* C5: a well-shaped document whose matrix literals all parse and whose
\* diagonal holds a zero is rejected with a MatrixInputError whose row and
\* column are the index, counted from 0, of the first zero diagonal entry.
C5_ZeroDiagonalRejected ==
    (/\ Built
     /\ ShapeOk(input.doc)
     /\ \A l \in MatrixLiterals(input.doc) : DecFromStr(l).ok
     /\ ZeroDiagonal(input.doc) # {}) =>
        /\ config.kind = "Err"
        /\ config.error.tag = "MatrixInputError"
        /\ config.error.message = ZERO_ON_DIAGONAL_ERROR_MESSAGE
        /\ config.error.row = SetMin(ZeroDiagonal(input.doc))
        /\ config.error.column = SetMin(ZeroDiagonal(input.doc))

\* The only zero of the diagonal is its second entry: row 1, column 1.
C5_Witness ==
    /\ Built /\ ShapeOk(input.doc)
    /\ ZeroDiagonal(input.doc) = {1}
    /\ config.kind = "Err"
    /\ config.error.tag = "MatrixInputError"
    /\ config.error.row = 1 /\ config.error.column = 1

MatrixSizeVariants ==
    {"EmptyMatrix", "WrongRowSize", "WrongRowsCount", "WrongExpressionRightHandSide"}

\* C6: an Equation that is built is n x n with n >= 1 and a right-hand side
\* of length n, n being the row count of the document; a document that is
\* not square with a matching right-hand side is rejected with a
\* MatrixSizeError.
C6_SquareNonEmpty ==
    Built =>
        /\ config.kind = "Ok" =>
              LET n  == Len(input.doc.input_matrix)
                  eq == config.value
              IN  /\ n >= 1
                  /\ DOMAIN eq.input_matrix = 0..(n - 1)
                  /\ \A r \in 0..(n - 1) : DOMAIN eq.input_matrix[r] = 0..(n - 1)
                  /\ DOMAIN eq.expression_rhs = 0..(n - 1)
        /\ ~ShapeOk(input.doc) =>
              /\ config.kind = "Err"
              /\ config.error.tag = "MatrixSizeError"
              /\ config.error.variant \in MatrixSizeVariants

\* A matrix of one empty row is rejected: one row where none is expected.
C6_Witness ==
    /\ Built
    /\ input.doc.input_matrix = << <<>> >>
    /\ config.kind = "Err"
    /\ config.error.tag = "MatrixSizeError"
    /\ config.error.variant = "WrongRowsCount"

\* C7: every Equation that is built has max_iterations >= 1 and epsilon >= 0.
C7_ScalarBounds ==
    (Built /\ config.kind = "Ok") =>
        /\ config.value.max_iterations >= 1
        /\ config.value.epsilon >= 0

DocumentLiterals(doc) ==
    {doc.input_matrix[r][c] :
        r \in 1..Len(doc.input_matrix), c \in 1..Len(doc.input_matrix[1])}
    \cup {doc.expression_rhs[r] : r \in 1..Len(doc.expression_rhs)}
    \cup {doc.epsilon}

\* C8: build_configuration ends with an Equation or an error value, never
\* with a panic, and a well-shaped document one of whose literals (matrix,
\* right-hand side or epsilon) does not parse ends with an error value.
C8_ErrorValueNotPanic ==
    /\ config.kind \in {"Pending", "Ok", "Err"}
    /\ (/\ Built /\ ShapeOk(input.doc)
        /\ \E l \in DocumentLiterals(input.doc) : ~DecFromStr(l).ok) =>
           config.kind = "Err"

\* |v - target| <= half a unit of the fourth decimal place.
AgreesTo4(v, target) == DecAbs(v - target) * 2 <= DecUnit \div 10000

\* C9 as stated: the scenario 4x + y = 1, 2x + 3y = 2 ends with Ok and
\* [0.0909, 0.6061] to four decimal places.
C9_AsStated ==
    (input = ScenarioConverge /\ Started(run) /\ Ended(run)) =>
        /\ run.pc = "Ok"
        /\ AgreesTo4(run.result_vector[0], 90900)
        /\ AgreesTo4(run.result_vector[1], 606100)

\* C9, amended: the scenario ends with Ok and [0.1000, 0.6000] to four
\* decimal places (x = 0.1, y = 0.6 is the solution of the system).
C9_Amended ==
    (input = ScenarioConverge /\ Started(run) /\ Ended(run)) =>
        /\ run.pc = "Ok"
        /\ AgreesTo4(run.result_vector[0], 100000)
        /\ AgreesTo4(run.result_vector[1], 600000)

C9_Witness ==
    /\ input = ScenarioConverge /\ Started(run) /\ run.pc = "Ok"
    /\ run.h_sweeps = 6

\* C10: of two calls on systems that differ only in epsilon, the second
\* having the looser one, the estimates at the end of the sweeps both have
\* completed are the same; if the first returned Ok the second completes no
\* more sweeps than the first, and once ended it has returned Ok.
C10_ToleranceMonotone ==
    (Started(run2) /\ run.eq.epsilon <= run2.eq.epsilon) =>
        /\ run2.eq = [run.eq EXCEPT !.epsilon = run2.eq.epsilon]
        /\ \A s \in 1..Len(run2.h_estimates) :
              s <= Len(run.h_estimates) => run2.h_estimates[s] = run.h_estimates[s]
        /\ run.pc = "Ok" =>
              /\ run2.h_sweeps <= run.h_sweeps
              /\ Ended(run2) => run2.pc = "Ok"

\* The looser call stops strictly earlier.
C10_Witness ==
    /\ Started(run2) /\ run.pc = "Ok" /\ run2.pc = "Ok"
    /\ run.eq.epsilon < run2.eq.epsilon
    /\ run2.h_sweeps < run.h_sweeps

=============================================================================
